---- MODULE Spec2Model ----
(***************************************************************************)
(* ColorHash: the /api/search-images match engine (provider fan-out,       *)
(* palette derivation, colour-distance filter, ranking) and the colour     *)
(* helpers of lib/color-utils (contrast correction).                       *)
(*                                                                         *)
(* Strings are sequences of one-character strings, so that parsing and     *)
(* formatting of HEX colours are computed, not assumed.  An RGB value is   *)
(* a record [r, g, b] of integers.                                         *)
(***************************************************************************)
EXTENDS Integers, Sequences, FiniteSets, TLC

VARIABLES
    pixabayKey,     \* process.env.PIXABAY_API_KEY is set
    pc,             \* position of the POST handler / of the colour-helper call
    request,        \* body of the current request: hexColors text, threshold
    parsedColors,   \* parseHexColors(hexColors)
    calls,          \* per provider: state of the adapter call and its return value
    matchedImages,  \* images that passed the colour filter, in push order
    response,       \* the JSON response of the handler
    contrast,       \* arguments and result of the last ensureContrast call
    page,           \* the palette page: React state and its localStorage entries
    util            \* the last call of a colour utility: its arguments and result

vars == <<pixabayKey, pc, request, parsedColors, calls, matchedImages, response,
          contrast, page, util>>

----------------------------------------------------------------------------
(* Bounds of the model                                                     *)

MaxUnsplash == 2
MaxPexels == 1
MaxPixabay == 1

\* longest run of digits in a string handed to normalizeHex / parseHexColors
MaxDigits == 7

----------------------------------------------------------------------------
(* Characters and HEX strings                                              *)

HexDigits == <<"0","1","2","3","4","5","6","7","8","9","a","b","c","d","e","f">>

Lower(c) ==
    CASE c = "A" -> "a" [] c = "B" -> "b" [] c = "C" -> "c"
      [] c = "D" -> "d" [] c = "E" -> "e" [] c = "F" -> "f"
      [] OTHER -> c

HexDigitSet == {HexDigits[i] : i \in 1..16}

IsHexDigit(c) == Lower(c) \in HexDigitSet

\* parseInt(c, 16) of one hex digit
HexVal(c) ==
    CASE c = "0" -> 0 [] c = "1" -> 1 [] c = "2" -> 2 [] c = "3" -> 3
      [] c = "4" -> 4 [] c = "5" -> 5 [] c = "6" -> 6 [] c = "7" -> 7
      [] c = "8" -> 8 [] c = "9" -> 9 [] c = "a" \/ c = "A" -> 10
      [] c = "b" \/ c = "B" -> 11 [] c = "c" \/ c = "C" -> 12
      [] c = "d" \/ c = "D" -> 13 [] c = "e" \/ c = "E" -> 14
      [] c = "f" \/ c = "F" -> 15

AllHex(s) == \A i \in 1..Len(s) : IsHexDigit(s[i])

\* the JavaScript value null / undefined where a string is expected
Null == <<"null">>

Rgb(r, g, b) == [r |-> r, g |-> g, b |-> b]

Min2(a, b) == IF a <= b THEN a ELSE b
Max2(a, b) == IF a >= b THEN a ELSE b
Clamp255(x) == Max2(0, Min2(255, x))

MaxChannel(rgb) == Max2(rgb.r, Max2(rgb.g, rgb.b))
MinChannel(rgb) == Min2(rgb.r, Min2(rgb.g, rgb.b))

\* hex.replace(/^#/, '')
StripHash(s) == IF Len(s) > 0 /\ s[1] = "#" THEN Tail(s) ELSE s

Byte(s, i) == 16 * HexVal(s[i]) + HexVal(s[i + 1])

\* image-api.ts hexToRgb: /^#?([a-f\d]{2})([a-f\d]{2})([a-f\d]{2})$/i, else black
LocalHexToRgb(hex) ==
    LET d == StripHash(hex) IN
    IF Len(d) = 6 /\ AllHex(d)
    THEN Rgb(Byte(d, 1), Byte(d, 3), Byte(d, 5))
    ELSE Rgb(0, 0, 0)

\* color-utils hexToRgb: tinycolor(hex).toRgb(); tinycolor reads #rgb, #rgba,
\* #rrggbb and #rrggbbaa (the '#' optional) and yields black for anything else,
\* null and undefined included
hexToRgb(hex) ==
    LET d == StripHash(hex) IN
    IF hex = Null \/ ~AllHex(d) THEN Rgb(0, 0, 0)
    ELSE IF Len(d) = 6 \/ Len(d) = 8
    THEN Rgb(Byte(d, 1), Byte(d, 3), Byte(d, 5))
    ELSE IF Len(d) = 3 \/ Len(d) = 4
    THEN Rgb(17 * HexVal(d[1]), 17 * HexVal(d[2]), 17 * HexVal(d[3]))
    ELSE Rgb(0, 0, 0)

Hex2(n) == <<HexDigits[(n \div 16) + 1], HexDigits[(n % 16) + 1]>>

\* '#' + ((1 << 24) + (r << 16) + (g << 8) + b).toString(16).slice(1)
rgbToHex(r, g, b) == <<"#">> \o Hex2(r) \o Hex2(g) \o Hex2(b)

----------------------------------------------------------------------------
(* Palette derivation (image-api.ts)                                       *)

\* Math.round(Math.max(0, Math.min(255, val + (val * percent) / 100)))
BrightnessChannel(val, percent) == Clamp255((val * (100 + percent) + 50) \div 100)

adjustBrightness(hex, percent) ==
    LET rgb == LocalHexToRgb(hex) IN
    rgbToHex(BrightnessChannel(rgb.r, percent),
             BrightnessChannel(rgb.g, percent),
             BrightnessChannel(rgb.b, percent))

\* gray = (r+g+b)/3; Math.round(clamp(gray + (val - gray) * (1 + percent/100)))
\*   = round((sum * (-percent) + 3 * val * (100 + percent)) / 300)
SaturationChannel(val, sum, percent) ==
    Clamp255((2 * (sum * (0 - percent) + 3 * val * (100 + percent)) + 300) \div 600)

adjustSaturation(hex, percent) ==
    LET rgb == LocalHexToRgb(hex)
        sum == rgb.r + rgb.g + rgb.b
    IN  rgbToHex(SaturationChannel(rgb.r, sum, percent),
                 SaturationChannel(rgb.g, sum, percent),
                 SaturationChannel(rgb.b, sum, percent))

getComplementaryColor(hex) ==
    LET rgb == LocalHexToRgb(hex) IN rgbToHex(255 - rgb.r, 255 - rgb.g, 255 - rgb.b)

getAnalogousColors(hex) == <<adjustBrightness(hex, 15), adjustBrightness(hex, -15)>>

\* a palette whose vibrant slot is a derived colour like the other slots
VibrantDerived(primaryColor) ==
    [ vibrant       |-> adjustSaturation(primaryColor, 30),
      darkVibrant   |-> adjustBrightness(primaryColor, -30),
      lightVibrant  |-> adjustBrightness(primaryColor, 30),
      muted         |-> adjustSaturation(primaryColor, -30),
      darkMuted     |-> adjustBrightness(adjustSaturation(primaryColor, -30), -30),
      lightMuted    |-> adjustBrightness(adjustSaturation(primaryColor, -30), 30),
      complementary |-> getComplementaryColor(primaryColor),
      analogous1    |-> getAnalogousColors(primaryColor)[1],
      analogous2    |-> getAnalogousColors(primaryColor)[2] ]

buildDerivedPalette(primaryColor) ==
    [ vibrant       |-> primaryColor,
      darkVibrant   |-> adjustBrightness(primaryColor, -30),
      lightVibrant  |-> adjustBrightness(primaryColor, 30),
      muted         |-> adjustSaturation(primaryColor, -30),
      darkMuted     |-> adjustBrightness(adjustSaturation(primaryColor, -30), -30),
      lightMuted    |-> adjustBrightness(adjustSaturation(primaryColor, -30), 30),
      complementary |-> getComplementaryColor(primaryColor),
      analogous1    |-> getAnalogousColors(primaryColor)[1],
      analogous2    |-> getAnalogousColors(primaryColor)[2] ]

Slots == {"vibrant", "darkVibrant", "lightVibrant", "muted", "darkMuted",
          "lightMuted", "complementary", "analogous1", "analogous2"}

----------------------------------------------------------------------------
(* color-utils: normalizeHex, parseHexColors, colorDistance, isColorMatch  *)

IsSpace(c) == c = " "

RECURSIVE TrimLeft(_)
TrimLeft(s) == IF Len(s) > 0 /\ IsSpace(s[1]) THEN TrimLeft(Tail(s)) ELSE s

RECURSIVE TrimRight(_)
TrimRight(s) ==
    IF Len(s) > 0 /\ IsSpace(s[Len(s)]) THEN TrimRight(SubSeq(s, 1, Len(s) - 1)) ELSE s

\* no trimming at all
Untrimmed(s) == s

\* String.prototype.trim
Trim(s) == TrimRight(TrimLeft(s))

RECURSIVE Doubled(_)
\* cleaned.split('').map(c => c + c).join('')
Doubled(s) == IF s = <<>> THEN <<>> ELSE <<Head(s), Head(s)>> \o Doubled(Tail(s))

\* a normalizer that doubles the digits of the six-digit form as well
DoublesAlways(hex) ==
    LET cleaned == StripHash(Trim(hex)) IN
    IF (Len(cleaned) = 3 \/ Len(cleaned) = 6) /\ AllHex(cleaned)
    THEN <<"#">> \o Doubled(cleaned)
    ELSE Null

normalizeHex(hex) ==
    LET cleaned == StripHash(Trim(hex)) IN
    IF Len(cleaned) = 3 /\ AllHex(cleaned) THEN <<"#">> \o Doubled(cleaned)
    ELSE IF Len(cleaned) = 6 /\ AllHex(cleaned) THEN <<"#">> \o cleaned
    ELSE Null

RECURSIVE HexRun(_, _, _)
\* how many of the characters input[i], input[i+1], ... are hex digits, at most max
HexRun(input, i, max) ==
    IF max = 0 \/ i > Len(input) \/ ~IsHexDigit(input[i]) THEN 0
    ELSE 1 + HexRun(input, i + 1, max - 1)

\* length of the match of /#?[0-9A-Fa-f]{3,6}/ that starts at position i, 0 if none
MatchLen(input, i) ==
    IF input[i] = "#"
    THEN IF HexRun(input, i + 1, 6) >= 3 THEN 1 + HexRun(input, i + 1, 6) ELSE 0
    ELSE IF HexRun(input, i, 6) >= 3 THEN HexRun(input, i, 6) ELSE 0

RECURSIVE HexMatches(_, _)
\* input.match(/#?[0-9A-Fa-f]{3,6}/g) || [], scanning from position i
HexMatches(input, i) ==
    IF i > Len(input) THEN <<>>
    ELSE IF MatchLen(input, i) = 0 THEN HexMatches(input, i + 1)
    ELSE <<SubSeq(input, i, i + MatchLen(input, i) - 1)>>
             \o HexMatches(input, i + MatchLen(input, i))

RECURSIVE DropNull(_)
DropNull(xs) ==
    IF xs = <<>> THEN <<>>
    ELSE IF Head(xs) = Null THEN DropNull(Tail(xs))
    ELSE <<Head(xs)>> \o DropNull(Tail(xs))

parseHexColors(input) ==
    LET matches == HexMatches(input, 1) IN
    DropNull([i \in 1..Len(matches) |-> normalizeHex(matches[i])])

\* the sum of the channel differences, not squared
SignedDistance(color1, color2) ==
    (color1.r - color2.r) + (color1.g - color2.g) + (color1.b - color2.b)

\* the square of colorDistance: Math.sqrt is increasing, so comparing squares of
\* non-negative numbers compares the distances
colorDistanceSq(color1, color2) ==
    LET rDiff == color1.r - color2.r
        gDiff == color1.g - color2.g
        bDiff == color1.b - color2.b
    IN  rDiff * rDiff + gDiff * gDiff + bDiff * bDiff

StrictColorMatch(targetColor, imageColor, threshold) ==
    threshold > 0 /\ colorDistanceSq(targetColor, imageColor) < threshold * threshold

\* a match of the colours that are exactly threshold apart
AtThreshold(targetColor, imageColor, threshold) ==
    threshold >= 0 /\ colorDistanceSq(targetColor, imageColor) = threshold * threshold

\* colorDistance(targetColor, imageColor) <= threshold
isColorMatch(targetColor, imageColor, threshold) ==
    threshold >= 0 /\ colorDistanceSq(targetColor, imageColor) <= threshold * threshold

----------------------------------------------------------------------------
(* Inputs the model draws from                                             *)

Providers == {"unsplash", "pexels", "pixabay"}

Black == <<"#","0","0","0","0","0","0">>
Red == <<"#","f","f","0","0","0","0">>
Cyan == <<"#","0","0","f","f","f","f">>
NearRed == <<"#","e","6","1","e","1","e">>

\* a photo whose colour field is the empty string
NoColor == <<>>

\* request texts: empty, without any hex token, one swatch, two swatches
Texts ==
    { <<>>,
      <<"x","y","z"," ","#","g","g">>,
      Red,
      <<"#","0","0","0"," ","#","F","F","0","0","0","0">> }

Thresholds == {0, 80}

UnsplashColors == {NoColor, Red, Cyan}
PexelsColors == {NoColor, NearRed}

\* the result lists a provider can answer with; a photo's id is its rank in the list
UnsplashLists ==
    UNION { { [i \in 1..n |-> [id |-> i, color |-> f[i]]] : f \in [1..n -> UnsplashColors] }
            : n \in 0..MaxUnsplash }

PexelsLists ==
    UNION { { [i \in 1..n |-> [id |-> i, avg_color |-> f[i]]] : f \in [1..n -> PexelsColors] }
            : n \in 0..MaxPexels }

PixabayLists == { [i \in 1..n |-> [id |-> i]] : n \in 0..MaxPixabay }

\* what the HTTP call of an adapter can end with: a well-formed body, a body
\* without the result list, or an exception (network, authentication)
Replies(p) ==
    { [kind |-> "ok", items |-> l] :
        l \in (CASE p = "unsplash" -> UnsplashLists
                 [] p = "pexels" -> PexelsLists
                 [] OTHER -> PixabayLists) }
    \cup { [kind |-> "malformed", items |-> <<>>], [kind |-> "error", items |-> <<>>] }

----------------------------------------------------------------------------
(* Provider adapters (image-api.ts): the value the adapter's promise        *)
(* resolves to, given how its HTTP call ended.  defined = FALSE is the      *)
(* JavaScript value undefined; failed records the console.error of a catch. *)

Returned(defined, items, failed) ==
    [defined |-> defined, items |-> items, failed |-> failed]

\* a catch block that logs and falls through without `return []`
CatchWithoutReturn(reply) ==
    CASE reply.kind = "ok" -> Returned(TRUE, reply.items, FALSE)
      [] reply.kind = "malformed" -> Returned(FALSE, <<>>, FALSE)
      [] OTHER -> Returned(FALSE, <<>>, TRUE)

\* return response.data.results / catch: return []
searchUnsplash(reply) ==
    CASE reply.kind = "ok" -> Returned(TRUE, reply.items, FALSE)
      [] reply.kind = "malformed" -> Returned(FALSE, <<>>, FALSE)
      [] OTHER -> Returned(TRUE, <<>>, TRUE)

\* return response.data.photos / catch: return []
searchPexels(reply) ==
    CASE reply.kind = "ok" -> Returned(TRUE, reply.items, FALSE)
      [] reply.kind = "malformed" -> Returned(FALSE, <<>>, FALSE)
      [] OTHER -> Returned(TRUE, <<>>, TRUE)

\* return response.data.hits ?? [] / catch: return []
searchPixabay(reply) ==
    CASE reply.kind = "ok" -> Returned(TRUE, reply.items, FALSE)
      [] reply.kind = "malformed" -> Returned(TRUE, <<>>, FALSE)
      [] OTHER -> Returned(TRUE, <<>>, TRUE)

AdapterReturn(p, reply) ==
    CASE p = "unsplash" -> searchUnsplash(reply)
      [] p = "pexels" -> searchPexels(reply)
      [] OTHER -> searchPixabay(reply)

\* no palette: the value null of DominantColors | null
NoPalette == [none |-> TRUE]

Falsy(str) == str = <<>> \/ str = Null

\* image.color || '#000000'
buildDominantColorsFromUnsplash(image) ==
    buildDerivedPalette(IF Falsy(image.color) THEN Black ELSE image.color)

\* image.avg_color || '#000000'
buildDominantColorsFromPexels(image) ==
    buildDerivedPalette(IF Falsy(image.avg_color) THEN Black ELSE image.avg_color)

\* the palette the function's comment describes: one derived from a fixed neutral
NeutralPixabayPalette(image) == buildDerivedPalette(Black)

\* return null
buildDominantColorsFromPixabay(image) == NoPalette

----------------------------------------------------------------------------
(* The POST handler of /api/search-images (page.tsx)                       *)

HasPalette(dominantColors) == "vibrant" \in DOMAIN dominantColors

\* parsedColors.map(hexToRgb)
targetRgbColors(colors) == [i \in 1..Len(colors) |-> hexToRgb(colors[i])]

\* colorValues.some(imageHex => targetRgbColors.some(t => isColorMatch(t, rgb, threshold)))
hasMatch(dominantColors, targets, threshold) ==
    \E slot \in Slots : \E i \in 1..Len(targets) :
        isColorMatch(targets[i], hexToRgb(dominantColors[slot]), threshold)

Retained(images, targets, threshold) ==
    SelectSeq(images, LAMBDA img :
        HasPalette(img.dominantColors) /\ hasMatch(img.dominantColors, targets, threshold))

UnsplashCandidates(list) ==
    [i \in 1..Len(list) |->
        [id |-> list[i].id, color |-> list[i].color,
         dominantColors |-> buildDominantColorsFromUnsplash(list[i]),
         source |-> "unsplash"]]

PexelsCandidates(list) ==
    [i \in 1..Len(list) |->
        [id |-> list[i].id, color |-> list[i].avg_color,
         dominantColors |-> buildDominantColorsFromPexels(list[i]),
         source |-> "pexels"]]

\* color: Object.values(dominantColors)[0] ?? '#000000'
PixabayCandidates(list) ==
    [i \in 1..Len(list) |->
        LET d == buildDominantColorsFromPixabay(list[i]) IN
        [id |-> list[i].id, color |-> IF HasPalette(d) THEN d.vibrant ELSE Black,
         dominantColors |-> d, source |-> "pixabay"]]

\* the distance to one swatch only, the one at position i
FirstTargetDistSq(rgb, targets, i) == colorDistanceSq(targets[i], rgb)

RECURSIVE MinDistSq(_, _, _)
\* targetRgbColors.reduce((min, target) => Math.min(min, d), Infinity), squared;
\* called with a non-empty list of targets
MinDistSq(rgb, targets, i) ==
    IF i = Len(targets) THEN colorDistanceSq(targets[i], rgb)
    ELSE Min2(colorDistanceSq(targets[i], rgb), MinDistSq(rgb, targets, i + 1))

\* the dist of scoredImages: distance of the image's primary colour to the
\* nearest requested swatch
Dist(img, targets) == MinDistSq(hexToRgb(img.color), targets, 1)

RECURSIVE InsertByDist(_, _, _)
InsertByDist(img, sorted, targets) ==
    IF sorted = <<>> THEN <<img>>
    ELSE IF Dist(img, targets) < Dist(Head(sorted), targets)
    THEN <<img>> \o sorted
    ELSE <<Head(sorted)>> \o InsertByDist(img, Tail(sorted), targets)

RECURSIVE SortByDist(_, _)
\* scoredImages.sort((a, b) => a.dist - b.dist): Array.prototype.sort is stable
SortByDist(images, targets) ==
    IF images = <<>> THEN <<>>
    ELSE InsertByDist(images[Len(images)],
                      SortByDist(SubSeq(images, 1, Len(images) - 1), targets), targets)

\* a count that ignores the provider tag
CountAll(images, src) == Len(images)

CountSource(images, src) == Len(SelectSeq(images, LAMBDA img : img.source = src))

NoSources == [unsplash |-> 0, pexels |-> 0, pixabay |-> 0]
NoResponse == [status |-> 0, images |-> <<>>, total |-> 0, sources |-> NoSources]
ErrorResponse(status) == [status |-> status, images |-> <<>>, total |-> 0, sources |-> NoSources]

\* the value undefined of an optional string parameter
Undefined == "undefined"

\* a call not made yet: no query, no colour filter, nothing returned; rank is
\* the place of the call among the HTTP calls of the request in the order in
\* which they completed, where that order is written down (ReplyInOrder), and
\* 0 otherwise
IdleCall ==
    [st |-> "idle", http |-> FALSE, ret |-> Returned(TRUE, <<>>, FALSE),
     query |-> <<>>, color |-> Undefined, rank |-> 0]

\* the hue of rgb in degrees is HueNum(rgb) / d, d being the difference of its
\* largest and its smallest channel (rgbToHsl: switch (max), case r first)
HueNum(rgb) ==
    LET d == MaxChannel(rgb) - MinChannel(rgb) IN
    IF MaxChannel(rgb) = rgb.r
    THEN 60 * ((rgb.g - rgb.b) + (IF rgb.g < rgb.b THEN 6 * d ELSE 0))
    ELSE IF MaxChannel(rgb) = rgb.g
    THEN 60 * ((rgb.b - rgb.r) + 2 * d)
    ELSE 60 * ((rgb.r - rgb.g) + 4 * d)

\* getColorName: l = (max + min) / 510, s = d / (max + min) or d / (510 - max - min),
\* compared without rounding; a colour without hue has h = 0 and s = 0
getColorName(hex) ==
    LET rgb == hexToRgb(hex)
        d == MaxChannel(rgb) - MinChannel(rgb)
        m == MaxChannel(rgb) + MinChannel(rgb)
        denom == IF m > 255 THEN 510 - m ELSE m
        h == HueNum(rgb)
    IN  IF 100 * m < 15 * 510 THEN "black"
        ELSE IF 100 * m > 85 * 510 THEN "white"
        ELSE IF 100 * d < 15 * denom THEN "gray"
        ELSE IF h < 30 * d THEN "red"
        ELSE IF h < 60 * d THEN "orange"
        ELSE IF h < 90 * d THEN "yellow"
        ELSE IF h < 150 * d THEN "green"
        ELSE IF h < 210 * d THEN "teal"
        ELSE IF h < 270 * d THEN "blue"
        ELSE IF h < 300 * d THEN "purple"
        ELSE IF h < 330 * d THEN "pink"
        ELSE "red"

getUnsplashColorParam(hex) ==
    LET name == getColorName(hex) IN
    IF name = "pink" THEN "magenta"
    ELSE IF name \in {"black", "white", "yellow", "orange", "red", "purple",
                      "magenta", "green", "teal", "blue"}
    THEN name
    ELSE Undefined

\* the last swatch in place of the first
LastHex(colors) == colors[Len(colors)]

\* const primaryHex = parsedColors[0]
primaryHex(colors) == colors[1]

\* the query argument of each adapter call, as its list of words:
\* `${colorName} nature abstract`, `${colorName} color`, colorName
QueryOf(p, colors) ==
    LET colorName == getColorName(primaryHex(colors)) IN
    CASE p = "unsplash" -> <<colorName, "nature", "abstract">>
      [] p = "pexels" -> <<colorName, "color">>
      [] OTHER -> <<colorName>>

\* the colour filter handed to searchUnsplash; the other adapters have none
ColorParamOf(p, colors) ==
    IF p = "unsplash" THEN getUnsplashColorParam(primaryHex(colors)) ELSE Undefined

\* the adapter p is called with its query
Called(call, p, colors) ==
    [call EXCEPT !.query = QueryOf(p, colors), !.color = ColorParamOf(p, colors)]
NoContrast == [fg |-> Black, bg |-> Black, target |-> 0, result |-> Black, iterations |-> 0]

\* the handler's locals before a request, and no ensureContrast call yet
HandlerIdle ==
    /\ pc = "idle"
    /\ request = [hexColors |-> <<>>, threshold |-> 0]
    /\ parsedColors = <<>>
    /\ calls = [p \in Providers |-> IdleCall]
    /\ matchedImages = <<>>
    /\ response = NoResponse
    /\ contrast = NoContrast

\* a request arrives: request.json() resolves with the body
Request(text, threshold) ==
    /\ pc = "idle"
    /\ request' = [hexColors |-> text, threshold |-> threshold]
    /\ pc' = "parse"
    /\ UNCHANGED <<page, util, pixabayKey, parsedColors, calls, matchedImages, response, contrast>>

NeverEmpty(colors) == FALSE

\* parsedColors.length === 0
NoColorsParsed(colors) == Len(colors) = 0

\* lines 96-108: parse, reject a request without colours
Parse ==
    /\ pc = "parse"
    /\ parsedColors' = parseHexColors(request.hexColors)
    /\ IF NoColorsParsed(parsedColors')
       THEN response' = ErrorResponse(400) /\ pc' = "done"
       ELSE response' = response /\ pc' = "start_unsplash"
    /\ UNCHANGED <<page, util, pixabayKey, request, calls, matchedImages, contrast>>

\* searchUnsplash(...) runs to its await axios.get and hands back a promise
StartUnsplash ==
    /\ pc = "start_unsplash"
    /\ calls' = [calls EXCEPT !["unsplash"] =
                    [Called(@, "unsplash", parsedColors) EXCEPT !.st = "pending", !.http = TRUE]]
    /\ pc' = "start_pexels"
    /\ UNCHANGED <<page, util, pixabayKey, request, parsedColors, matchedImages, response, contrast>>

StartPexels ==
    /\ pc = "start_pexels"
    /\ calls' = [calls EXCEPT !["pexels"] =
                    [Called(@, "pexels", parsedColors) EXCEPT !.st = "pending", !.http = TRUE]]
    /\ pc' = "start_pixabay"
    /\ UNCHANGED <<page, util, pixabayKey, request, parsedColors, matchedImages, response, contrast>>

\* searchPixabay without its key test: the HTTP call is made in any case
StartPixabayUnguarded ==
    /\ pc = "start_pixabay"
    /\ calls' = [calls EXCEPT !["pixabay"] =
                    [Called(@, "pixabay", parsedColors) EXCEPT !.st = "pending", !.http = TRUE]]
    /\ pc' = "await"
    /\ UNCHANGED <<page, util, pixabayKey, request, parsedColors, matchedImages, response, contrast>>

\* searchPixabay returns [] at once when the key is not configured
StartPixabay ==
    /\ pc = "start_pixabay"
    /\ calls' = [calls EXCEPT !["pixabay"] =
                    IF pixabayKey
                    THEN [Called(@, "pixabay", parsedColors) EXCEPT !.st = "pending", !.http = TRUE]
                    ELSE [Called(@, "pixabay", parsedColors) EXCEPT !.st = "returned"]]
    /\ pc' = "await"
    /\ UNCHANGED <<page, util, pixabayKey, request, parsedColors, matchedImages, response, contrast>>

\* the HTTP call of adapter p ends and the adapter returns; the continuation of
\* an await runs only while the handler is suspended at its own await
Reply(p) ==
    /\ pc = "await"
    /\ calls[p].st = "pending"
    /\ \E reply \in Replies(p) :
         calls' = [calls EXCEPT ![p] = [@ EXCEPT !.st = "returned", !.ret = AdapterReturn(p, reply)]]
    /\ UNCHANGED <<page, util, pixabayKey, pc, request, parsedColors, matchedImages, response, contrast>>

\* Reply(p), with the place of the call in the order of completion written down
ReplyInOrder(p) ==
    /\ pc = "await"
    /\ calls[p].st = "pending"
    /\ \E reply \in Replies(p) :
         calls' = [calls EXCEPT ![p] =
                      [@ EXCEPT !.st = "returned", !.ret = AdapterReturn(p, reply),
                                !.rank = 1 + Cardinality({q \in Providers : calls[q].rank > 0})]]
    /\ UNCHANGED <<page, util, pixabayKey, pc, request, parsedColors, matchedImages, response, contrast>>

\* the provider never answers: axios.get is called without a timeout, so the
\* adapter's promise stays pending
Hang(p) ==
    /\ pc = "await"
    /\ calls[p].st = "pending"
    /\ calls' = [calls EXCEPT ![p] = [@ EXCEPT !.st = "hung"]]
    /\ UNCHANGED <<page, util, pixabayKey, pc, request, parsedColors, matchedImages, response, contrast>>

AnySettled == \E p \in Providers : calls[p].st = "returned"

\* Promise.all([...]) resolves
AllSettled == \A p \in Providers : calls[p].st = "returned"

Join ==
    /\ pc = "await"
    /\ AllSettled
    /\ pc' = "unsplash"
    /\ UNCHANGED <<page, util, pixabayKey, request, parsedColors, calls, matchedImages, response, contrast>>

\* one `for (const image of <list>)` loop: iterating undefined throws a TypeError,
\* which the handler's catch turns into the 500 response
ProcessList(p, candidates, next) ==
    /\ IF calls[p].ret.defined
       THEN /\ matchedImages' = matchedImages \o
                   Retained(candidates, targetRgbColors(parsedColors), request.threshold)
            /\ response' = response
            /\ pc' = next
       ELSE /\ matchedImages' = matchedImages
            /\ response' = ErrorResponse(500)
            /\ pc' = "done"
    /\ UNCHANGED <<page, util, pixabayKey, request, parsedColors, calls, contrast>>

ProcessUnsplash ==
    /\ pc = "unsplash"
    /\ ProcessList("unsplash", UnsplashCandidates(calls["unsplash"].ret.items), "pexels")

ProcessPexels ==
    /\ pc = "pexels"
    /\ ProcessList("pexels", PexelsCandidates(calls["pexels"].ret.items), "pixabay")

ProcessPixabay ==
    /\ pc = "pixabay"
    /\ ProcessList("pixabay", PixabayCandidates(calls["pixabay"].ret.items), "respond")

\* the images of the providers in the order in which their calls completed
ByCompletion(images) ==
    LET of(r) == SelectSeq(images, LAMBDA img : calls[img.source].rank = r)
    IN  of(0) \o of(1) \o of(2) \o of(3)

\* a handler that merges the lists in the order in which the calls completed
RespondByCompletion ==
    /\ pc = "respond"
    /\ LET sorted == SortByDist(ByCompletion(matchedImages), targetRgbColors(parsedColors)) IN
       response' = [status |-> 200, images |-> sorted, total |-> Len(sorted),
                    sources |-> [unsplash |-> CountSource(matchedImages, "unsplash"),
                                 pexels |-> CountSource(matchedImages, "pexels"),
                                 pixabay |-> CountSource(matchedImages, "pixabay")]]
    /\ pc' = "done"
    /\ UNCHANGED <<page, util, pixabayKey, request, parsedColors, calls, matchedImages, contrast>>

\* lines 255-284: score, sort, count, answer
Respond ==
    /\ pc = "respond"
    /\ LET sorted == SortByDist(matchedImages, targetRgbColors(parsedColors)) IN
       response' = [status |-> 200, images |-> sorted, total |-> Len(sorted),
                    sources |-> [unsplash |-> CountSource(matchedImages, "unsplash"),
                                 pexels |-> CountSource(matchedImages, "pexels"),
                                 pixabay |-> CountSource(matchedImages, "pixabay")]]
    /\ pc' = "done"
    /\ UNCHANGED <<page, util, pixabayKey, request, parsedColors, calls, matchedImages, contrast>>

\* the request is over; the next one starts from fresh locals
Reset ==
    /\ pc \in {"done", "returned"}
    /\ pc' = "idle"
    /\ request' = [hexColors |-> <<>>, threshold |-> 0]
    /\ parsedColors' = <<>>
    /\ calls' = [p \in Providers |-> IdleCall]
    /\ matchedImages' = <<>>
    /\ response' = NoResponse
    /\ contrast' = NoContrast
    /\ UNCHANGED <<page, util, pixabayKey>>

----------------------------------------------------------------------------
(* Contrast (color-utils, on tinycolor2).  tinycolor works in IEEE doubles; *)
(* the model works in fixed point: a linearised channel in 1/100000, a      *)
(* luminance in 1/1000000, a contrast ratio in 1/1000, and HSL saturation   *)
(* and lightness in 1/10000, the unit tinycolor itself truncates them to    *)
(* when it reads an HSL value back.  A target ratio is given in tenths.     *)

White == <<"#","f","f","f","f","f","f">>
Gray == <<"#","7","f","7","f","7","f">>

\* white in the three-digit upper-case notation
ShortWhite == <<"#","F","F","F">>

ContrastColors == {Black, White, ShortWhite, Gray, Red, NearRed}
TargetRatios == {30, 45, 70}

\* the iteration cap of ensureContrast
MaxIterations == 100

\* round(100000 * (c <= 0.03928 ? c / 12.92 : ((c + 0.055) / 1.055) ^ 2.4)), c = v / 255,
\* for v = 0 .. 255
LinTab ==
    <<
       0, 30, 61, 91, 121, 152, 182, 212,
       243, 273, 304, 335, 368, 402, 439, 478,
       518, 561, 605, 651, 700, 750, 802, 857,
       913, 972, 1033, 1096, 1161, 1229, 1298, 1370,
       1444, 1521, 1600, 1681, 1764, 1850, 1938, 2029,
       2122, 2217, 2315, 2416, 2519, 2624, 2732, 2843,
       2956, 3071, 3190, 3310, 3434, 3560, 3689, 3820,
       3955, 4092, 4231, 4374, 4519, 4667, 4817, 4971,
       5127, 5286, 5448, 5613, 5781, 5951, 6125, 6301,
       6480, 6663, 6848, 7036, 7227, 7421, 7619, 7819,
       8022, 8228, 8438, 8650, 8866, 9084, 9306, 9531,
       9759, 9990, 10224, 10462, 10702, 10946, 11193, 11444,
       11697, 11954, 12214, 12477, 12744, 13014, 13287, 13563,
       13843, 14126, 14413, 14703, 14996, 15293, 15593, 15896,
       16203, 16513, 16827, 17144, 17465, 17789, 18116, 18447,
       18782, 19120, 19462, 19807, 20156, 20508, 20864, 21223,
       21586, 21953, 22323, 22697, 23074, 23455, 23840, 24228,
       24620, 25016, 25415, 25818, 26225, 26636, 27050, 27468,
       27889, 28315, 28744, 29177, 29614, 30054, 30499, 30947,
       31399, 31855, 32314, 32778, 33245, 33716, 34191, 34670,
       35153, 35640, 36131, 36625, 37124, 37626, 38133, 38643,
       39157, 39676, 40198, 40724, 41254, 41789, 42327, 42869,
       43415, 43966, 44520, 45079, 45641, 46208, 46778, 47353,
       47932, 48515, 49102, 49693, 50289, 50888, 51492, 52100,
       52712, 53328, 53948, 54572, 55201, 55834, 56471, 57112,
       57758, 58408, 59062, 59720, 60383, 61050, 61721, 62396,
       63076, 63760, 64448, 65141, 65837, 66539, 67244, 67954,
       68669, 69387, 70110, 70838, 71569, 72306, 73046, 73791,
       74540, 75294, 76052, 76815, 77582, 78354, 79130, 79910,
       80695, 81485, 82279, 83077, 83880, 84687, 85499, 86316,
       87137, 87962, 88792, 89627, 90466, 91310, 92158, 93011,
       93869, 94731, 95597, 96469, 97345, 98225, 99110, 100000 >>

\* tinycolor getLuminance: 0.2126 R + 0.7152 G + 0.0722 B
Luminance(rgb) ==
    (2126 * LinTab[rgb.r + 1] + 7152 * LinTab[rgb.g + 1] + 722 * LinTab[rgb.b + 1]) \div 1000

\* tinycolor.readability: (max(L1, L2) + 0.05) / (min(L1, L2) + 0.05), in 1/1000
Readability(rgb1, rgb2) ==
    (1000 * (Max2(Luminance(rgb1), Luminance(rgb2)) + 50000))
        \div (Min2(Luminance(rgb1), Luminance(rgb2)) + 50000)

getContrastRatio(fg, bg) == Readability(hexToRgb(fg), hexToRgb(bg))

\* tinycolor isDark: (r * 299 + g * 587 + b * 114) / 1000 < 128
IsDark(rgb) == rgb.r * 299 + rgb.g * 587 + rgb.b * 114 < 128000

\* HSL lightness (max + min) / 2 of an RGB value
Lightness(rgb) == (10000 * (MaxChannel(rgb) + MinChannel(rgb))) \div 510

\* HSL saturation d / (2 - max - min) if l > 0.5, else d / (max + min)
Saturation(rgb) ==
    LET d == MaxChannel(rgb) - MinChannel(rgb)
        m == MaxChannel(rgb) + MinChannel(rgb)
    IN  IF d = 0 THEN 0
        ELSE IF m > 255 THEN (10000 * d) \div (510 - m)
        ELSE (10000 * d) \div m

\* One channel of hslToRgb for the hue of src, saturation s and lightness l,
\* rounded as toRgb / toHexString round.  With p and q of hslToRgb, the channel
\* is p + t (q - p), t = (v - min) / d being the channel's place between the
\* smallest and the largest channel of src, which the hue fixes.
HslChannel(v, src, s, l) ==
    LET d == MaxChannel(src) - MinChannel(src)
        w == 2 * v - (MaxChannel(src) + MinChannel(src))
        x == s * Min2(l, 10000 - l)
        hi == 255 * l * d + 255 * w * (x \div 10000) + ((255 * w * (x % 10000)) \div 10000)
    IN  IF d = 0 THEN (255 * l + 5000) \div 10000
        ELSE (hi + 5000 * d) \div (10000 * d)

HslToRgb(src, s, l) ==
    Rgb(HslChannel(src.r, src, s, l), HslChannel(src.g, src, s, l), HslChannel(src.b, src, s, l))

\* a step in the other direction: darker on a dark background, lighter otherwise
StepTowardsBackground(l, isBgDark) ==
    IF isBgDark THEN Max2(0, l - 100) ELSE Min2(10000, l + 100)

\* lightness after result.lighten(1) / result.darken(1): clamp01(l +- 0.01)
StepLightness(l, isBgDark) ==
    IF isBgDark THEN Min2(10000, l + 100) ELSE Max2(0, l - 100)

\* a loop body that steps once and returns without testing the ratio again
OneStepOnly(src, l, bgRgb, isBgDark, target, iterations) ==
    LET result == HslToRgb(src, Saturation(src), StepLightness(l, isBgDark)) IN
    [result |-> rgbToHex(result.r, result.g, result.b), iterations |-> 1]

RECURSIVE ContrastLoop(_, _, _, _, _, _)
\* while (readability(result.toHexString(), bg) < targetRatio && iterations < 100)
ContrastLoop(src, l, bgRgb, isBgDark, target, iterations) ==
    LET result == IF iterations = 0 THEN src ELSE HslToRgb(src, Saturation(src), l) IN
    IF Readability(result, bgRgb) < target * 100 /\ iterations < MaxIterations
    THEN ContrastLoop(src, StepLightness(l, isBgDark), bgRgb, isBgDark, target, iterations + 1)
    ELSE [result |-> rgbToHex(result.r, result.g, result.b), iterations |-> iterations]

\* no correction at all: fg is handed back whatever its contrast
NoCorrection(fg, bg, target) == [result |-> fg, iterations |-> 0]

\* an early return of tinycolor(fg).toHexString() in place of fg
ReturnsHexString(fg, bg, target) ==
    IF getContrastRatio(fg, bg) >= target * 100
    THEN [result |-> rgbToHex(hexToRgb(fg).r, hexToRgb(fg).g, hexToRgb(fg).b),
          iterations |-> 0]
    ELSE ContrastLoop(hexToRgb(fg), Lightness(hexToRgb(fg)), hexToRgb(bg),
                      IsDark(hexToRgb(bg)), target, 0)

\* ensureContrast(fg, bg, targetRatio) and the number of iterations it ran
ensureContrast(fg, bg, target) ==
    IF getContrastRatio(fg, bg) >= target * 100
    THEN [result |-> fg, iterations |-> 0]
    ELSE ContrastLoop(hexToRgb(fg), Lightness(hexToRgb(fg)), hexToRgb(bg),
                      IsDark(hexToRgb(bg)), target, 0)

\* a caller asks for a foreground colour of the given contrast
EnsureContrast(fg, bg, target) ==
    /\ pc = "idle"
    /\ contrast' = [fg |-> fg, bg |-> bg, target |-> target,
                    result |-> ensureContrast(fg, bg, target).result,
                    iterations |-> ensureContrast(fg, bg, target).iterations]
    /\ pc' = "returned"
    /\ UNCHANGED <<page, util, pixabayKey, request, parsedColors, calls, matchedImages, response>>

----------------------------------------------------------------------------
(* Role assignment: applyVibeToPalette, generateHarmony, generateShades,    *)
(* generateTints (color-utils) and applyFromBase (palette page).  An HSL    *)
(* value is kept as the RGB value that fixes its hue (HueSource) with       *)
(* saturation and lightness in 1/10000.                                     *)

\* the vibes the user picks from (three of the six of type Vibe) and the three
\* brightness preferences
Vibes == {"minimal", "playful", "retro"}
Brightnesses == {"light", "dark", "mixed"}

\* the values the contrast slider is moved to (in tenths; the slider spans 3 to 7)
SliderValues == {30, 70}

\* tinycolor clamp01
Clamp01(x) == Max2(0, Min2(10000, x))

\* rgbToHsl gives hue 0 to a colour whose channels are equal
HueSource(rgb) == IF MaxChannel(rgb) = MinChannel(rgb) THEN Rgb(255, 0, 0) ELSE rgb

\* toHexString
HexOf(rgb) == rgbToHex(rgb.r, rgb.g, rgb.b)

\* hue + 180: every channel is mirrored between the smallest and the largest
SpinHalf(rgb) ==
    LET m == MaxChannel(rgb) + MinChannel(rgb) IN Rgb(m - rgb.r, m - rgb.g, m - rgb.b)

\* hue + 120 and hue + 240: the channels rotate
SpinThird(rgb) == Rgb(rgb.b, rgb.r, rgb.g)
SpinTwoThirds(rgb) == Rgb(rgb.g, rgb.b, rgb.r)

\* tinycolor(hex).lighten(amount).toHexString()
lighten(hex, amount) ==
    LET rgb == hexToRgb(hex) IN
    HexOf(HslToRgb(rgb, Saturation(rgb), Clamp01(Lightness(rgb) + 100 * amount)))

\* tinycolor(hex).darken(amount).toHexString()
darken(hex, amount) ==
    LET rgb == hexToRgb(hex) IN
    HexOf(HslToRgb(rgb, Saturation(rgb), Clamp01(Lightness(rgb) - 100 * amount)))

saturationShift(vibe) ==
    CASE vibe = "minimal" -> -20 [] vibe = "vibrant" -> 30 [] vibe = "playful" -> 15
      [] vibe = "serious" -> -10 [] vibe = "editorial" -> -5 [] vibe = "retro" -> -10
      [] OTHER -> 0

brightnessShift(vibe) ==
    CASE vibe = "minimal" -> 10 [] vibe = "vibrant" -> 5 [] vibe = "playful" -> 10
      [] vibe = "serious" -> -10 [] vibe = "editorial" -> 0 [] vibe = "retro" -> -5
      [] OTHER -> 0

\* saturate / desaturate by the saturation shift, then lighten / darken by the
\* brightness shift, then toHexString
applyVibeToPalette(hex, vibe) ==
    LET rgb == hexToRgb(hex)
        s == Clamp01(Saturation(rgb) + 100 * saturationShift(vibe))
        l == Clamp01(Lightness(rgb) + 100 * brightnessShift(vibe))
    IN  [ base |-> HexOf(HslToRgb(HueSource(rgb), s, l)),
          saturationShift |-> saturationShift(vibe),
          brightnessShift |-> brightnessShift(vibe) ]

\* the two harmonies applyFromBase reads: complement() and triad()
generateHarmony(baseHex) ==
    LET rgb == hexToRgb(baseHex)
        s == Saturation(rgb)
        l == Lightness(rgb)
    IN  [ complementary |-> HexOf(HslToRgb(SpinHalf(HueSource(rgb)), s, l)),
          triadic |-> << HexOf(rgb),
                         HexOf(HslToRgb(SpinThird(HueSource(rgb)), s, l)),
                         HexOf(HslToRgb(SpinTwoThirds(HueSource(rgb)), s, l)) >> ]

generateShades(baseHex, count) == [i \in 1..count |-> darken(baseHex, i * 12)]

generateTints(baseHex, count) == [i \in 1..count |-> lighten(baseHex, i * 12)]

RetroBackground == <<"#","F","D","F","8","F","1">>
MinimalBackground == <<"#","F","3","F","4","F","6">>
DefaultBackground == <<"#","F","9","F","A","F","B">>

\* a dark-mode background of lightness 80% in place of 8%
PaleDarkBackground(vibeBase, vibe, brightness) ==
    LET rgb == hexToRgb(vibeBase) IN
    IF brightness = "dark"
    THEN HexOf(HslToRgb(HueSource(rgb), Min2(Saturation(rgb), 2000), 8000))
    ELSE IF brightness = "mixed"
    THEN (IF vibe = "retro" THEN RetroBackground
          ELSE IF vibe = "minimal" THEN MinimalBackground
          ELSE DefaultBackground)
    ELSE HexOf(HslToRgb(HueSource(rgb), Min2(Saturation(rgb), 1000), 9800))

\* step 3 of applyFromBase: the background for the brightness preference
Background(vibeBase, vibe, brightness) ==
    LET rgb == hexToRgb(vibeBase) IN
    IF brightness = "dark"
    THEN HexOf(HslToRgb(HueSource(rgb), Min2(Saturation(rgb), 2000), 800))
    ELSE IF brightness = "mixed"
    THEN (IF vibe = "retro" THEN RetroBackground
          ELSE IF vibe = "minimal" THEN MinimalBackground
          ELSE DefaultBackground)
    ELSE HexOf(HslToRgb(HueSource(rgb), Min2(Saturation(rgb), 1000), 9800))

\* an accent candidate that is the complementary colour for every vibe
ComplementAlways(vibeBase, vibe) == generateHarmony(vibeBase).complementary

\* accentCandidate: JavaScript's triadic[1] is the second element
AccentCandidate(vibeBase, vibe) ==
    IF vibe = "playful" THEN generateHarmony(vibeBase).triadic[2]
    ELSE generateHarmony(vibeBase).complementary

\* targetHeadingCandidate (tints[7] / shades[7]) and targetBodyCandidate
\* (tints[5] / shades[5]); JavaScript counts the elements from 0
HeadingCandidate(vibeBase, isBgDark) ==
    IF isBgDark THEN generateTints(vibeBase, 8)[8] ELSE generateShades(vibeBase, 8)[8]

BodyCandidate(vibeBase, isBgDark) ==
    IF isBgDark THEN generateTints(vibeBase, 8)[6] ELSE generateShades(vibeBase, 8)[6]

\* the PaletteSlots applyFromBase hands to saveSlots; threshold in tenths
applyFromBase(hex, vibe, brightness, threshold) ==
    LET vibeBase == applyVibeToPalette(hex, vibe).base
        background == Background(vibeBase, vibe, brightness)
        isBgDark == IsDark(hexToRgb(background))
    IN  [ base |-> hex,
          background |-> background,
          illustration |-> IF isBgDark THEN generateTints(vibeBase, 8)[3] ELSE vibeBase,
          accent |-> ensureContrast(AccentCandidate(vibeBase, vibe), background,
                                    Max2(threshold, 30)).result,
          textHeading |-> ensureContrast(HeadingCandidate(vibeBase, isBgDark),
                                         background, threshold).result,
          textBody |-> ensureContrast(BodyCandidate(vibeBase, isBgDark),
                                      background, threshold).result ]

----------------------------------------------------------------------------
(* The palette page (PalettePage): its React state, its two localStorage    *)
(* entries and its handlers.  applied and edited are history: the           *)
(* arguments of the applyFromBase call that wrote the present slots, and    *)
(* whether a slot was edited by hand since the last applyFromBase.          *)

DefaultBase == <<"#","8","B","5","C","F","6">>

DefaultSlots ==
    [ base |-> DefaultBase, background |-> <<"#","F","9","F","A","F","B">>, illustration |-> DefaultBase,
      accent |-> <<"#","E","C","4","8","9","9">>, textHeading |-> <<"#","1","1","1","8","2","7">>, textBody |-> <<"#","4","B","5","5","6","3">> ]

DefaultSettings == [vibe |-> "minimal", brightness |-> "light"]

\* useState([4.5])
DefaultThreshold == 45

\* localStorage.getItem gives null
NoStored == [none |-> TRUE]
IsStored(item) == "none" \notin DOMAIN item

NoApplied == [none |-> TRUE]
Applied(hex, vibe, brightness, threshold) ==
    [hex |-> hex, vibe |-> vibe, brightness |-> brightness, threshold |-> threshold]

\* what the user can type into the colour field, and into a slot's field
PageTexts == { <<"z","z">>, <<"#","0","0","3">> }
SlotKeys == {"accent"}
SlotValues == { ShortWhite }

\* the state after the component is constructed, before its effect has run
ConstructedPage ==
    [ ph |-> "constructed", base |-> DefaultBase, slots |-> DefaultSlots,
      error |-> FALSE, contrastThreshold |-> DefaultThreshold,
      projectSettings |-> DefaultSettings,
      storedSettings |-> NoStored, storedSlots |-> NoStored,
      applied |-> NoApplied, edited |-> FALSE ]

\* applyFromBase(hex, vibe, brightness, threshold) followed by saveSlots(next)
ApplyAndSave(pg, hex, vibe, brightness, threshold) ==
    LET next == applyFromBase(hex, vibe, brightness, threshold) IN
    [pg EXCEPT !.slots = next, !.storedSlots = next,
               !.applied = Applied(hex, vibe, brightness, threshold),
               !.edited = FALSE]

\* the mount effect: load the stored settings and the stored palette; without
\* a stored palette call applyFromBase(slots.base, currentVibe), whose other
\* two arguments default to the state of the first render
Mount ==
    /\ pc = "idle"
    /\ page.ph = "constructed"
    /\ LET currentVibe == IF IsStored(page.storedSettings)
                          THEN page.storedSettings.vibe ELSE "minimal"
           loaded == [page EXCEPT !.ph = "mounted",
                                  !.projectSettings = IF IsStored(page.storedSettings)
                                                      THEN page.storedSettings ELSE @]
       IN  page' = IF IsStored(page.storedSlots)
                   THEN [loaded EXCEPT !.slots = page.storedSlots,
                                       !.base = IF Falsy(page.storedSlots.base)
                                                THEN DefaultBase
                                                ELSE page.storedSlots.base,
                                       !.applied = NoApplied]
                   ELSE ApplyAndSave(loaded, page.slots.base, currentVibe,
                                     page.projectSettings.brightness,
                                     page.contrastThreshold)
    /\ UNCHANGED <<pixabayKey, pc, request, parsedColors, calls, matchedImages,
                   response, contrast, util>>

\* the page is opened again: fresh React state, localStorage as it was left
Reload ==
    /\ pc = "idle"
    /\ page.ph = "mounted"
    /\ page' = [ConstructedPage EXCEPT !.storedSettings = page.storedSettings,
                                       !.storedSlots = page.storedSlots,
                                       !.edited = page.edited]
    /\ UNCHANGED <<pixabayKey, pc, request, parsedColors, calls, matchedImages,
                   response, contrast, util>>

\* updateSettings(key, value), key being 'vibe' or 'brightness'
UpdateSettings(key, value) ==
    /\ pc = "idle"
    /\ page.ph = "mounted"
    /\ LET next == [page.projectSettings EXCEPT ![key] = value] IN
       page' = ApplyAndSave([page EXCEPT !.projectSettings = next, !.storedSettings = next],
                            page.base, next.vibe, next.brightness, page.contrastThreshold)
    /\ UNCHANGED <<pixabayKey, pc, request, parsedColors, calls, matchedImages,
                   response, contrast, util>>

\* handleParse with rawInput = text
HandleParse(text) ==
    /\ pc = "idle"
    /\ page.ph = "mounted"
    /\ LET parsed == parseHexColors(text) IN
       page' = IF Len(parsed) = 0
               THEN [page EXCEPT !.error = TRUE]
               ELSE ApplyAndSave([page EXCEPT !.error = FALSE, !.base = parsed[1]],
                                 parsed[1], page.projectSettings.vibe,
                                 page.projectSettings.brightness, page.contrastThreshold)
    /\ UNCHANGED <<pixabayKey, pc, request, parsedColors, calls, matchedImages,
                   response, contrast, util>>

\* the body of handleContrastChange for the slider value val (in tenths)
ContrastChanged(pg, val) ==
    LET next == [pg.slots EXCEPT
                    !.textHeading = ensureContrast(pg.slots.textHeading,
                                                   pg.slots.background, val).result,
                    !.textBody = ensureContrast(pg.slots.textBody,
                                                pg.slots.background, val).result]
    IN  [pg EXCEPT !.contrastThreshold = val, !.slots = next, !.storedSlots = next,
                   !.applied = NoApplied]

HandleContrastChange(val) ==
    /\ pc = "idle"
    /\ page.ph = "mounted"
    /\ page' = ContrastChanged(page, val)
    /\ UNCHANGED <<pixabayKey, pc, request, parsedColors, calls, matchedImages,
                   response, contrast, util>>

\* handleFixContrast: handleContrastChange(contrastThreshold)
HandleFixContrast ==
    /\ pc = "idle"
    /\ page.ph = "mounted"
    /\ page' = ContrastChanged(page, page.contrastThreshold)
    /\ UNCHANGED <<pixabayKey, pc, request, parsedColors, calls, matchedImages,
                   response, contrast, util>>

\* handleSlotChange(slot, value): normalizeHex(value) ?? value
HandleSlotChange(slot, value) ==
    /\ pc = "idle"
    /\ page.ph = "mounted"
    /\ LET normalized == IF normalizeHex(value) = Null THEN value ELSE normalizeHex(value)
           next == [page.slots EXCEPT ![slot] = normalized]
       IN  page' = [page EXCEPT !.slots = next, !.storedSlots = next,
                                !.applied = NoApplied, !.edited = TRUE]
    /\ UNCHANGED <<pixabayKey, pc, request, parsedColors, calls, matchedImages,
                   response, contrast, util>>

PageNext ==
    \/ Mount
    \/ Reload
    \/ \E v \in Vibes : UpdateSettings("vibe", v)
    \/ \E b \in Brightnesses : UpdateSettings("brightness", b)
    \/ \E text \in PageTexts : HandleParse(text)
    \/ \E val \in SliderValues : HandleContrastChange(val)
    \/ HandleFixContrast
    \/ \E slot \in SlotKeys, value \in SlotValues : HandleSlotChange(slot, value)

\* no utility call yet
NoUtil == [op |-> "none"]

Init ==
    /\ pixabayKey \in BOOLEAN
    /\ HandlerIdle
    /\ page = ConstructedPage
    /\ util = NoUtil

PageInit ==
    /\ pixabayKey = FALSE
    /\ HandlerIdle
    /\ page = ConstructedPage
    /\ util = NoUtil

PageSpec == PageInit /\ [][PageNext]_vars

----------------------------------------------------------------------------
(* Calls of the pure colour utilities: normalizeHex, parseHexColors,        *)
(* colorDistance and buildDerivedPalette, each applied to an input drawn    *)
(* from a bounded set.  util records the call: op, input, result; chained   *)
(* says that the input was itself the result of the call before.            *)

DigitChars == {"a", "F", "g"}
Prefixes == { <<>>, <<"#">>, <<" ">>, <<" ","#">> }
Suffixes == { <<>>, <<" ">> }

\* strings: optional blank, optional '#', up to MaxDigits characters, optional blank
HexStrings ==
    { pre \o body \o post :
        pre \in Prefixes,
        body \in UNION { [1..n -> DigitChars] : n \in 0..MaxDigits },
        post \in Suffixes }

\* texts of two tokens
TwoTokenTexts ==
    { <<"#","F","F","a"," ","a","a","a","a","a","a">>,
      <<"a","a","a","a"," ","#","a","F","a">> }

ChannelValues == {0, 128, 255}
RgbColors == { Rgb(r, g, b) : r \in ChannelValues, g \in ChannelValues, b \in ChannelValues }

DeriveColors == { Black, Red, Cyan, NearRed, White, Gray, ShortWhite,
                  <<"#","F","F","0","0","0","0">> }

UtilCall(op, input, result, chained) ==
    [op |-> op, input |-> input, result |-> result, chained |-> chained]

UtilIdle ==
    /\ pc = "idle"
    /\ util = NoUtil
    /\ UNCHANGED <<pixabayKey, pc, request, parsedColors, calls, matchedImages,
                   response, contrast, page>>

Normalize ==
    /\ UtilIdle
    /\ \E hex \in HexStrings :
          util' = UtilCall("normalizeHex", hex, normalizeHex(hex), FALSE)

\* normalizeHex applied to what normalizeHex returned
NormalizeAgain ==
    /\ pc = "idle"
    /\ util.op = "normalizeHex"
    /\ ~util.chained
    /\ util.result # Null
    /\ util' = UtilCall("normalizeHex", util.result, normalizeHex(util.result), TRUE)
    /\ UNCHANGED <<pixabayKey, pc, request, parsedColors, calls, matchedImages,
                   response, contrast, page>>

ParseText ==
    /\ UtilIdle
    /\ \E input \in HexStrings \cup TwoTokenTexts :
          util' = UtilCall("parseHexColors", input, parseHexColors(input), FALSE)

\* colorDistance(color1, color2), with the distances of the swapped pair and
\* of color1 to itself
Distance ==
    /\ UtilIdle
    /\ \E color1 \in RgbColors, color2 \in RgbColors :
          util' = UtilCall("colorDistance", <<color1, color2>>,
                           [ forward |-> colorDistanceSq(color1, color2),
                             backward |-> colorDistanceSq(color2, color1),
                             self |-> colorDistanceSq(color1, color1) ], FALSE)

Derive ==
    /\ UtilIdle
    /\ \E primaryColor \in DeriveColors :
          util' = UtilCall("buildDerivedPalette", primaryColor,
                           buildDerivedPalette(primaryColor), FALSE)

\* the six vibes of type Vibe, and base colours over the whole RGB cube
AllVibes == {"minimal", "vibrant", "playful", "serious", "editorial", "retro"}
BaseColors == { HexOf(c) : c \in RgbColors }

\* applyFromBase(hex, vibe, brightness) at the default threshold: the slots it stores
AssignRoles ==
    /\ UtilIdle
    /\ \E hex \in BaseColors, vibe \in AllVibes, brightness \in Brightnesses :
          util' = UtilCall("applyFromBase",
                           [hex |-> hex, vibe |-> vibe, brightness |-> brightness],
                           applyFromBase(hex, vibe, brightness, DefaultThreshold), FALSE)

UtilReturn ==
    /\ pc = "idle"
    /\ util # NoUtil
    /\ util' = NoUtil
    /\ UNCHANGED <<pixabayKey, pc, request, parsedColors, calls, matchedImages,
                   response, contrast, page>>

UtilNext ==
    \/ Normalize
    \/ NormalizeAgain
    \/ ParseText
    \/ Distance
    \/ Derive
    \/ AssignRoles
    \/ UtilReturn

UtilSpec == PageInit /\ [][UtilNext]_vars

Next ==
    \/ \E text \in Texts, threshold \in Thresholds : Request(text, threshold)
    \/ Parse
    \/ StartUnsplash
    \/ StartPexels
    \/ StartPixabay
    \/ \E p \in Providers : Reply(p)
    \/ \E p \in Providers : Hang(p)
    \/ Join
    \/ ProcessUnsplash
    \/ ProcessPexels
    \/ ProcessPixabay
    \/ Respond
    \/ \E fg \in ContrastColors, bg \in ContrastColors, target \in TargetRatios :
          EnsureContrast(fg, bg, target)
    \/ Reset

Spec == Init /\ [][Next]_vars

\* the request of two swatches at the default threshold, every provider
\* answering, with the order in which the three calls complete written down
TwoSwatchText == <<"#","0","0","0"," ","#","F","F","0","0","0","0">>
DefaultMatchThreshold == 80

RaceNext ==
    \/ Request(TwoSwatchText, DefaultMatchThreshold)
    \/ Parse
    \/ StartUnsplash
    \/ StartPexels
    \/ StartPixabay
    \/ \E p \in Providers : ReplyInOrder(p)
    \/ Join
    \/ ProcessUnsplash
    \/ ProcessPexels
    \/ ProcessPixabay
    \/ Respond
    \/ Reset

RaceSpec == Init /\ [][RaceNext]_vars


----------------------------------------------------------------------------
(* Properties of the match request                                         *)

Answered == pc = "done" /\ response.status = 200

Targets == targetRgbColors(parsedColors)

\* the square of the smallest distance between a palette colour and a swatch
MatchScoreSq(palette, targets) ==
    LET pairs == { colorDistanceSq(targets[i], hexToRgb(palette[slot])) :
                      i \in 1..Len(targets), slot \in Slots }
    IN  CHOOSE d \in pairs : \A e \in pairs : d <= e

WithinThreshold(palette) ==
    /\ request.threshold >= 0
    /\ MatchScoreSq(palette, Targets) <= request.threshold * request.threshold

InResponse(src, id) ==
    \E k \in 1..Len(response.images) :
        response.images[k].source = src /\ response.images[k].id = id

ResponseOf(src) == SelectSeq(response.images, LAMBDA img : img.source = src)

\* C1: a request whose text yields no valid colour ends with the 400 input
\* error, and no provider adapter has been called
InputErrorWithoutCalls ==
    (pc \notin {"idle", "parse", "returned"} /\ Len(parsedColors) = 0) =>
        /\ pc = "done"
        /\ response.status = 400
        /\ \A p \in Providers : calls[p].st = "idle" /\ ~calls[p].http

InputErrorReached ==
    /\ pc = "done"
    /\ response.status = 400
    /\ Len(request.hexColors) > 0
    /\ \A p \in Providers : calls[p].st = "idle"

\* C2: in a success response an Unsplash or Pexels photo is present iff one of
\* its nine palette colours lies within the threshold of one requested swatch
FilterKeepsExactlyTheMatches ==
    Answered =>
        /\ \A i \in 1..Len(calls["unsplash"].ret.items) :
              InResponse("unsplash", i) <=>
                  WithinThreshold(buildDominantColorsFromUnsplash(calls["unsplash"].ret.items[i]))
        /\ \A i \in 1..Len(calls["pexels"].ret.items) :
              InResponse("pexels", i) <=>
                  WithinThreshold(buildDominantColorsFromPexels(calls["pexels"].ret.items[i]))

FilterKeptAndDropped ==
    /\ Answered
    /\ Len(calls["unsplash"].ret.items) = 2
    /\ InResponse("unsplash", 1)
    /\ ~InResponse("unsplash", 2)
    /\ InResponse("pexels", 1)

\* C3: the photos of a success response are in ascending order of MatchScore,
\* the smallest distance between any palette colour and any swatch
SortedByMatchScore ==
    Answered =>
        \A i \in 1..Len(response.images), j \in 1..Len(response.images) :
            i < j => MatchScoreSq(response.images[i].dominantColors, Targets)
                        <= MatchScoreSq(response.images[j].dominantColors, Targets)

\* C4: an adapter whose HTTP call threw returned the empty list; if the other
\* two returned their lists the request answers 200, counts 0 for the failed
\* provider, and holds exactly the photos the other two lists give
ThrowingProviderIsEmpty ==
    \A p \in Providers :
        (calls[p].st = "returned" /\ calls[p].ret.failed) =>
            /\ calls[p].ret.defined /\ calls[p].ret.items = <<>>
            /\ (pc = "done" /\ \A q \in Providers \ {p} : calls[q].ret.defined) =>
                  /\ response.status = 200
                  /\ response.sources[p] = 0
                  /\ ResponseOf(p) = <<>>
                  /\ response.images =
                        SortByDist(
                            Retained(UnsplashCandidates(calls["unsplash"].ret.items),
                                     Targets, request.threshold)
                            \o Retained(PexelsCandidates(calls["pexels"].ret.items),
                                        Targets, request.threshold),
                            Targets)
                  /\ \A q \in Providers : response.sources[q] = Len(ResponseOf(q))

ThrowingProviderReached ==
    /\ Answered
    /\ calls["unsplash"].ret.failed
    /\ ~calls["pexels"].ret.failed
    /\ response.sources["pexels"] > 0

\* C5: a provider that answers without its result list counts as empty: the
\* request answers 200 with that provider's count 0, whatever the providers did
MalformedProviderIsEmpty ==
    (pc = "done" /\ Len(parsedColors) > 0) =>
        /\ response.status = 200
        /\ \A p \in Providers : ~calls[p].ret.defined => response.sources[p] = 0

\* C6: when two providers have returned and the third one never answers, the
\* request is not stuck: it has been answered or a step towards its answer
\* can be taken
SlowProviderDoesNotBlock ==
    (\E p \in Providers :
        /\ calls[p].st = "hung"
        /\ \A q \in Providers \ {p} : calls[q].st = "returned")
    => (pc = "done" \/ ENABLED Next)

\* C7: no adapter call has returned before all three were started, and the
\* handler filters and merges only after all three have returned
FanOutThenJoin ==
    /\ (\E p \in Providers : calls[p].st = "returned") =>
           \A q \in Providers : calls[q].st # "idle"
    /\ (\/ pc \in {"unsplash", "pexels", "pixabay", "respond"}
        \/ matchedImages # <<>>
        \/ (pc = "done" /\ response.status # 400)) =>
           \A p \in Providers : calls[p].st = "returned"

JoinedAfterFanOut ==
    /\ pc = "pexels"
    /\ matchedImages # <<>>
    /\ \A p \in Providers : calls[p].http /\ calls[p].st = "returned"

\* C8: a photo whose colour field is missing or empty is in no response
NoColorImageExcluded ==
    Answered => \A k \in 1..Len(response.images) : ~Falsy(response.images[k].color)

ContrastNeverLowered ==
    pc = "returned" =>
        getContrastRatio(contrast.result, contrast.bg)
            >= getContrastRatio(contrast.fg, contrast.bg)

\* C11: a call of ensureContrast returns after at most 100 iterations of its
\* loop, and the colour it returns reaches the target ratio against bg unless
\* exactly 100 iterations were run
ContrastLoopBounded ==
    pc = "returned" =>
        /\ contrast.iterations \in 0..MaxIterations
        /\ \/ getContrastRatio(contrast.result, contrast.bg) >= contrast.target * 100
           \/ contrast.iterations = MaxIterations

ContrastCapReached ==
    /\ pc = "returned"
    /\ contrast.iterations = MaxIterations
    /\ getContrastRatio(contrast.result, contrast.bg) < contrast.target * 100

\* C12: when fg already reaches the target ratio against bg, ensureContrast
\* returns the string fg as it was given and runs no iteration
ContrastEarlyReturn ==
    (pc = "returned" /\ getContrastRatio(contrast.fg, contrast.bg) >= contrast.target * 100) =>
        /\ contrast.result = contrast.fg
        /\ contrast.iterations = 0

ContrastEarlyReturned ==
    /\ pc = "returned"
    /\ contrast.fg = ShortWhite
    /\ getContrastRatio(contrast.fg, contrast.bg) >= contrast.target * 100
    /\ contrast.result = ShortWhite

----------------------------------------------------------------------------
(* Properties of role assignment and of the palette page                   *)

\* the colour fg has become after k lightness steps towards more contrast
\* with bg (lighter on a dark bg, darker otherwise)
Stepped(fg, bg, k) ==
    LET src == hexToRgb(fg)
        l == IF IsDark(hexToRgb(bg)) THEN Lightness(src) + 100 * k
             ELSE Lightness(src) - 100 * k
    IN  IF k = 0 THEN src ELSE HslToRgb(src, Saturation(src), Clamp01(l))

\* some colour within 100 lightness steps of fg reaches the target against bg
Reachable(fg, bg, target) ==
    \E k \in 0..MaxIterations :
        Readability(Stepped(fg, bg, k), hexToRgb(bg)) >= target * 100

\* the working base and the darkness of the background of the applyFromBase
\* call that wrote the present slots
AppliedVibeBase == applyVibeToPalette(page.applied.hex, page.applied.vibe).base
AppliedBgDark == IsDark(hexToRgb(page.slots.background))

\* C13: in a palette written by applyFromBase, heading and body text reach the
\* target ratio against the background, unless no colour within 100 lightness
\* steps of the text candidate reaches it
TextMeetsTarget ==
    (page.ph = "mounted" /\ page.applied # NoApplied) =>
        /\ \/ getContrastRatio(page.slots.textHeading, page.slots.background)
                  >= page.applied.threshold * 100
           \/ ~Reachable(HeadingCandidate(AppliedVibeBase, AppliedBgDark),
                         page.slots.background, page.applied.threshold)
        /\ \/ getContrastRatio(page.slots.textBody, page.slots.background)
                  >= page.applied.threshold * 100
           \/ ~Reachable(BodyCandidate(AppliedVibeBase, AppliedBgDark),
                         page.slots.background, page.applied.threshold)

TextCorrected ==
    /\ page.ph = "mounted"
    /\ page.applied # NoApplied
    /\ page.applied.threshold = 70
    /\ page.slots.textBody # BodyCandidate(AppliedVibeBase, AppliedBgDark)
    /\ getContrastRatio(BodyCandidate(AppliedVibeBase, AppliedBgDark),
                        page.slots.background) < 7000
    /\ getContrastRatio(page.slots.textBody, page.slots.background) >= 7000
    /\ getContrastRatio(page.slots.textHeading, page.slots.background) >= 7000

\* C14: whenever the page is loaded and no slot was edited by hand, the stored
\* palette is the one applyFromBase computes from the present base colour,
\* vibe, brightness preference and contrast threshold
PaletteFollowsInputs ==
    (page.ph = "mounted" /\ ~page.edited) =>
        page.slots = applyFromBase(page.base, page.projectSettings.vibe,
                                   page.projectSettings.brightness,
                                   page.contrastThreshold)

----------------------------------------------------------------------------
(* Properties of the colour utilities                                      *)

RECURSIVE TokenColors(_, _)
\* the colours of the tokens of text from position i on, a token being a
\* maximal run of hex digits: a run of 3 gives '#' and its digits doubled, a
\* run of 6 gives '#' and its digits, a run of any other length gives nothing
TokenColors(text, i) ==
    IF i > Len(text) THEN <<>>
    ELSE IF ~IsHexDigit(text[i]) THEN TokenColors(text, i + 1)
    ELSE LET n == HexRun(text, i, Len(text))
             digits == SubSeq(text, i, i + n - 1)
         IN  (IF n = 3
              THEN << <<"#", digits[1], digits[1], digits[2], digits[2],
                        digits[3], digits[3]>> >>
              ELSE IF n = 6 THEN << <<"#">> \o digits >>
              ELSE <<>>)
             \o TokenColors(text, i + n)

\* C15: parseHexColors returns, in order of appearance, the normalized colour
\* of every token of 3 or 6 hex digits and nothing for a token of another
\* length; every element is '#' and six hex digits
ParseYieldsValidTokens ==
    util.op = "parseHexColors" =>
        /\ util.result = TokenColors(util.input, 1)
        /\ \A k \in 1..Len(util.result) :
              /\ Len(util.result[k]) = 7
              /\ util.result[k][1] = "#"
              /\ AllHex(Tail(util.result[k]))

\* the string s without its leading and trailing blanks
Core(s) ==
    IF \A k \in 1..Len(s) : s[k] = " " THEN <<>>
    ELSE SubSeq(s,
                CHOOSE i \in 1..Len(s) : s[i] # " " /\ \A k \in 1..(i - 1) : s[k] = " ",
                CHOOSE j \in 1..Len(s) : s[j] # " " /\ \A k \in (j + 1)..Len(s) : s[k] = " ")

\* what a string of the accepted shape is normalized to, Null for any other
NormalForm(str) ==
    LET d == IF Len(str) > 0 /\ str[1] = "#" THEN SubSeq(str, 2, Len(str)) ELSE str IN
    IF Len(d) = 3 /\ AllHex(d) THEN <<"#", d[1], d[1], d[2], d[2], d[3], d[3]>>
    ELSE IF Len(d) = 6 /\ AllHex(d) THEN <<"#", d[1], d[2], d[3], d[4], d[5], d[6]>>
    ELSE Null

\* C16 as stated: normalizeHex accepts exactly the strings that are 3 or 6 hex
\* digits with an optional leading '#', doubling the digits of the short form,
\* and gives null for every other string
NormalizeAcceptsExactly ==
    util.op = "normalizeHex" => util.result = NormalForm(util.input)

\* C16: normalizeHex accepts exactly the strings that, once their leading and
\* trailing blanks are removed, are 3 or 6 hex digits with an optional leading
\* '#'; it doubles the digits of the short form, keeps the six digits of the
\* long form, and gives null for every other string
NormalizeAcceptsTrimmed ==
    util.op = "normalizeHex" => util.result = NormalForm(Core(util.input))

NormalizedPadded ==
    /\ util.op = "normalizeHex"
    /\ util.input = <<" ", "#", "a", "F", "a", " ">>
    /\ util.result = <<"#", "a", "a", "F", "F", "a", "a">>

\* C17: normalizeHex applied to a colour it returned gives that colour back
NormalizeIdempotent ==
    (util.op = "normalizeHex" /\ util.chained) => util.result = util.input

NormalizedTwice ==
    /\ util.op = "normalizeHex"
    /\ util.chained
    /\ util.result = <<"#", "F", "F", "a", "a", "F", "F">>

\* C18: the distance of a colour to itself is 0, the distance of two colours
\* is the same in both directions, and no distance is negative
DistanceSymmetricZero ==
    util.op = "colorDistance" =>
        /\ util.result.self = 0
        /\ util.result.forward = util.result.backward
        /\ util.result.forward >= 0

DistanceOfDistinct ==
    /\ util.op = "colorDistance"
    /\ util.input[1] = Rgb(255, 0, 0)
    /\ util.input[2] = Rgb(0, 128, 255)
    /\ util.result.forward > 0

\* C19: the vibrant slot of the derived palette is the colour it was derived from
VibrantIsPrimary ==
    util.op = "buildDerivedPalette" => util.result.vibrant = util.input

DerivedFromNearRed ==
    /\ util.op = "buildDerivedPalette"
    /\ util.input = NearRed
    /\ util.result.vibrant = NearRed
    /\ \A slot \in Slots \ {"vibrant"} : util.result[slot] # NearRed

----------------------------------------------------------------------------
(* Properties of matching that compare requests                            *)

\* the swatches in another order
Permuted(targets, f) == [i \in 1..Len(targets) |-> targets[f[i]]]

\* what the filter keeps of the three returned lists for the given swatches
RetainedAll(targets, threshold) ==
    Retained(UnsplashCandidates(calls["unsplash"].ret.items), targets, threshold)
    \o Retained(PexelsCandidates(calls["pexels"].ret.items), targets, threshold)
    \o Retained(PixabayCandidates(calls["pixabay"].ret.items), targets, threshold)

\* C20: the images of a success response, and their order, are those that
\* filtering and sorting give for every other order of the requested swatches
SwatchOrderIrrelevant ==
    Answered =>
        \A f \in Permutations(1..Len(Targets)) :
            response.images =
                SortByDist(RetainedAll(Permuted(Targets, f), request.threshold),
                           Permuted(Targets, f))

TwoSwatchesAnswered ==
    /\ Answered
    /\ Len(parsedColors) = 2
    /\ parsedColors[1] # parsedColors[2]
    /\ Len(response.images) = 3
    /\ Dist(response.images[1], Targets) < Dist(response.images[3], Targets)
    /\ \E k \in 1..3 : ~hasMatch(response.images[k].dominantColors,
                                    <<Targets[1]>>, request.threshold)
    /\ \E k \in 1..3 : ~hasMatch(response.images[k].dominantColors,
                                    <<Targets[2]>>, request.threshold)


----------------------------------------------------------------------------
(* Properties of the provider fan-out and of the response                  *)

\* C21: without a Pixabay key the Pixabay adapter makes no HTTP call and
\* returns the empty list; the request is answered from the lists of Unsplash
\* and Pexels alone, with a pixabay count of 0
PixabayKeyAbsent ==
    ~pixabayKey =>
        /\ ~calls["pixabay"].http
        /\ calls["pixabay"].st \in {"idle", "returned"}
        /\ calls["pixabay"].ret = Returned(TRUE, <<>>, FALSE)
        /\ (pc = "done" /\ Len(parsedColors) > 0
             /\ calls["unsplash"].ret.defined /\ calls["pexels"].ret.defined) =>
               /\ response.status = 200
               /\ response.sources["pixabay"] = 0
               /\ response.images =
                     SortByDist(
                         Retained(UnsplashCandidates(calls["unsplash"].ret.items),
                                  Targets, request.threshold)
                         \o Retained(PexelsCandidates(calls["pexels"].ret.items),
                                     Targets, request.threshold),
                         Targets)

AnsweredWithoutPixabayKey ==
    /\ Answered
    /\ ~pixabayKey
    /\ calls["pixabay"].st = "returned"
    /\ ~calls["pixabay"].http
    /\ response.sources["unsplash"] > 0
    /\ response.sources["pexels"] > 0


\* the place of a provider in the order in which the handler merges the lists
ProviderRank(src) ==
    CASE src = "unsplash" -> 1 [] src = "pexels" -> 2 [] OTHER -> 3

\* img1 arrived before img2: an earlier provider, or the same provider and an
\* earlier place in its list (the id of a photo is its place in the list)
ArrivedBefore(img1, img2) ==
    \/ ProviderRank(img1.source) < ProviderRank(img2.source)
    \/ img1.source = img2.source /\ img1.id < img2.id

\* C22: two photos of a success response that have the same MatchScore are in
\* arrival order: Unsplash before Pexels before Pixabay, and within one
\* provider in the order of the provider's list
TiesKeepArrivalOrder ==
    Answered =>
        \A i \in 1..Len(response.images), j \in 1..Len(response.images) :
            (/\ i < j
             /\ MatchScoreSq(response.images[i].dominantColors, Targets)
                   = MatchScoreSq(response.images[j].dominantColors, Targets))
            => ArrivedBefore(response.images[i], response.images[j])


----------------------------------------------------------------------------
(* Properties of the accent and of the direction of contrast correction    *)

\* the colour the accent starts from: the second triadic colour of the working
\* base for the playful vibe, its complementary colour for any other vibe
AppliedAccentSource ==
    IF page.applied.vibe = "playful"
    THEN generateHarmony(AppliedVibeBase).triadic[2]
    ELSE generateHarmony(AppliedVibeBase).complementary

AppliedAccentTarget == Max2(page.applied.threshold, 30)

\* C23: in a palette written by applyFromBase the accent is its candidate if
\* that reaches max(target, 3.0) against the background, else the candidate
\* moved by lightness steps; the accent reaches max(target, 3.0) unless no
\* colour within 100 lightness steps of the candidate does
AccentMeetsTarget ==
    (page.ph = "mounted" /\ page.applied # NoApplied) =>
        /\ getContrastRatio(AppliedAccentSource, page.slots.background)
               >= AppliedAccentTarget * 100
             => page.slots.accent = AppliedAccentSource
        /\ \E k \in 0..MaxIterations :
               hexToRgb(page.slots.accent)
                   = Stepped(AppliedAccentSource, page.slots.background, k)
        /\ \/ getContrastRatio(page.slots.accent, page.slots.background)
                  >= AppliedAccentTarget * 100
           \/ ~Reachable(AppliedAccentSource, page.slots.background, AppliedAccentTarget)

PlayfulAccentCorrected ==
    /\ page.ph = "mounted"
    /\ page.applied # NoApplied
    /\ page.applied.vibe = "playful"
    /\ page.slots.accent # AppliedAccentSource
    /\ AppliedAccentSource # generateHarmony(AppliedVibeBase).complementary
    /\ getContrastRatio(AppliedAccentSource, page.slots.background)
          < AppliedAccentTarget * 100
    /\ getContrastRatio(page.slots.accent, page.slots.background)
          >= AppliedAccentTarget * 100


\* C24: when ensureContrast steps, the colour it returns after n iterations is
\* fg moved n lightness units (within the lightness range) in the one
\* direction the background fixes, lighter on a dark background and darker
\* otherwise; every colour on the way was short of the target, and the result
\* is nowhere on the other side of fg
DirectionFixedPerCall ==
    (pc = "returned" /\ contrast.iterations > 0) =>
        /\ hexToRgb(contrast.result)
              = Stepped(contrast.fg, contrast.bg, contrast.iterations)
        /\ \A k \in 0..(contrast.iterations - 1) :
              /\ Readability(Stepped(contrast.fg, contrast.bg, k), hexToRgb(contrast.bg))
                    < contrast.target * 100
              /\ IF IsDark(hexToRgb(contrast.bg))
                 THEN Lightness(Stepped(contrast.fg, contrast.bg, k))
                        <= Lightness(Stepped(contrast.fg, contrast.bg, k + 1))
                 ELSE Lightness(Stepped(contrast.fg, contrast.bg, k))
                        >= Lightness(Stepped(contrast.fg, contrast.bg, k + 1))

DarkenedOnLightBackground ==
    /\ pc = "returned"
    /\ contrast.iterations > 1
    /\ contrast.iterations < MaxIterations
    /\ ~IsDark(hexToRgb(contrast.bg))
    /\ Lightness(hexToRgb(contrast.result)) < Lightness(hexToRgb(contrast.fg))


\* a provider's adapter has been called in the present request
WasCalled(p) == calls[p].st # "idle"

\* C25 as stated: the three adapters are called with one and the same query
\* string, built from the colour name of the first swatch
OneSharedQuery ==
    \A p \in Providers, q \in Providers :
        (WasCalled(p) /\ WasCalled(q)) =>
            /\ calls[p].query = calls[q].query
            /\ calls[p].query[1] = getColorName(parsedColors[1])

\* C25: each adapter is called with a query of its own, made of the colour
\* name of the first swatch and fixed words ("<name> nature abstract" for
\* Unsplash, "<name> color" for Pexels, "<name>" for Pixabay), and Unsplash
\* with a colour filter taken from the first swatch; no other swatch enters
\* any query
QueriesFromPrimaryName ==
    \A p \in Providers :
        WasCalled(p) =>
            /\ calls[p].query[1] = getColorName(parsedColors[1])
            /\ Tail(calls[p].query) =
                  (CASE p = "unsplash" -> <<"nature", "abstract">>
                     [] p = "pexels" -> <<"color">>
                     [] OTHER -> <<>>)
            /\ calls[p].color =
                  (IF p = "unsplash" THEN getUnsplashColorParam(parsedColors[1])
                   ELSE Undefined)

CalledWithBlackQuery ==
    /\ \A p \in Providers : WasCalled(p)
    /\ Len(parsedColors) = 2
    /\ getColorName(parsedColors[2]) = "red"
    /\ calls["unsplash"].query = <<"black", "nature", "abstract">>
    /\ calls["unsplash"].color = "black"
    /\ calls["pexels"].query = <<"black", "color">>
    /\ calls["pixabay"].query = <<"black">>


\* '#' followed by six hex digits
IsNormalColor(c) == Len(c) = 7 /\ c[1] = "#" /\ AllHex(Tail(c))

\* C26: the primary colour and the nine palette colours of every photo of a
\* success response are '#' followed by six hex digits
ReturnedColorsNormalized ==
    Answered =>
        \A k \in 1..Len(response.images) :
            /\ IsNormalColor(response.images[k].color)
            /\ \A slot \in Slots : IsNormalColor(response.images[k].dominantColors[slot])


\* the working base of the applyFromBase call that util records
AssignedVibeBase == applyVibeToPalette(util.input.hex, util.input.vibe).base

\* C27: the background of role assignment is dark for the dark/light heuristic
\* exactly when the brightness preference is 'dark'; illustration and the two
\* text colours start from tints of the working base when the preference is
\* 'dark', and from the working base and its shades otherwise
BackgroundDarkIffPreferred ==
    util.op = "applyFromBase" =>
        LET dark == util.input.brightness = "dark"
            bg == util.result.background
        IN  /\ IsDark(hexToRgb(bg)) <=> dark
            /\ util.result.illustration =
                  (IF dark THEN lighten(AssignedVibeBase, 36) ELSE AssignedVibeBase)
            /\ util.result.textHeading =
                  ensureContrast(IF dark THEN lighten(AssignedVibeBase, 96)
                                 ELSE darken(AssignedVibeBase, 96),
                                 bg, DefaultThreshold).result
            /\ util.result.textBody =
                  ensureContrast(IF dark THEN lighten(AssignedVibeBase, 72)
                                 ELSE darken(AssignedVibeBase, 72),
                                 bg, DefaultThreshold).result

DarkPreferenceAssigned ==
    /\ util.op = "applyFromBase"
    /\ util.input.brightness = "dark"
    /\ util.input.vibe = "vibrant"
    /\ IsDark(hexToRgb(util.result.background))
    /\ util.result.illustration # AssignedVibeBase
    /\ Lightness(hexToRgb(util.result.textHeading)) > Lightness(hexToRgb(AssignedVibeBase))


\* C28: in a success response total is the number of photos returned, each
\* provider's count is the number of returned photos that carry its tag, and
\* the three counts add up to total
CountsMatchImages ==
    Answered =>
        /\ response.total = Len(response.images)
        /\ \A p \in Providers :
              response.sources[p]
                = Cardinality({k \in 1..Len(response.images) : response.images[k].source = p})
        /\ response.sources["unsplash"] + response.sources["pexels"]
              + response.sources["pixabay"] = response.total

CountedFromTwoProviders ==
    /\ Answered
    /\ response.total = 3
    /\ response.sources["unsplash"] = 2
    /\ response.sources["pexels"] = 1
    /\ response.images[1].source = "pexels"


\* the images of the response to the same swatches and the same provider
\* lists with threshold t
ResponseAt(t) == SortByDist(RetainedAll(Targets, t), Targets)

IsIn(img, images) == \E k \in 1..Len(images) : images[k] = img

\* every element of small is in large, and in the same relative order
OrderedWithin(small, large) ==
    SelectSeq(large, LAMBDA img : IsIn(img, small)) = small

\* C29: with the swatches and the provider lists of a success response, the
\* response to a smaller threshold holds only images of the response to a
\* larger one, in the same relative order
ThresholdMonotone ==
    Answered =>
        \A t \in Thresholds :
            /\ t >= request.threshold => OrderedWithin(response.images, ResponseAt(t))
            /\ t <= request.threshold => OrderedWithin(ResponseAt(t), response.images)

NarrowThresholdAnswered ==
    /\ Answered
    /\ request.threshold = 0
    /\ Len(response.images) = 2
    /\ Len(ResponseAt(80)) = 3
    /\ ~IsIn(ResponseAt(80)[2], response.images)


\* the response the three returned lists determine, whatever the order in
\* which the calls completed
ResponseOfLists ==
    LET images == ResponseAt(request.threshold) IN
    [ status |-> 200, images |-> images, total |-> Len(images),
      sources |-> [p \in Providers |->
                     Cardinality({k \in 1..Len(images) : images[k].source = p})] ]

\* C30: a success response is the one its three provider lists determine:
\* image order, total and counts are the same for every order in which the
\* three calls completed
CompletionOrderIrrelevant == Answered => response = ResponseOfLists

PexelsCompletedFirst ==
    /\ Answered
    /\ calls["pexels"].rank = 1
    /\ calls["unsplash"].rank > 1
    /\ response.sources["unsplash"] = 1
    /\ response.sources["pexels"] = 1
    /\ response.images[1].source = "unsplash"
    /\ Dist(response.images[1], Targets) = Dist(response.images[2], Targets)

====
